---- MODULE Spec2Model ----
(***************************************************************************)
(* The from-scratch decision tree of decisiontree.ipynb: class Node and    *)
(* class DecisionTreeClassifier (entropy, information_gain, best_split,    *)
(* build_tree, fit).                                                       *)
(*                                                                         *)
(* Representation.                                                         *)
(*  - Python None is the empty tuple, a set value v is the 1-tuple <<v>>.  *)
(*  - A Node object is identified by the position of the build_tree call   *)
(*    that created it: the sequence of 0 (left) / 1 (right) turns from the *)
(*    first call, the same naming visualize_tree gives to its node ids.    *)
(*  - X is a sequence of rows, a row a sequence of feature values; feature *)
(*    index f of the code (0-based) is position f + 1 of a row.            *)
(*  - A sub-array X[mask], y[mask] is kept as the sequence of the indices  *)
(*    of its rows in the X given to fit, in their order.                   *)
(*  - Floats are fixed point numbers. log2 of an integer k is Log2Fix(k),  *)
(*    a proportion c/n is kept exact, so every product and quotient of     *)
(*    entropy and information_gain is exact up to the rounding of the log  *)
(*    table. For the label vectors tried here (two classes, up to 6 rows)  *)
(*    the order and the sign of the gains so computed coincide with those  *)
(*    of the IEEE doubles of the code.                                     *)
(*  - The recursion of build_tree is run one call at a time on an explicit *)
(*    call stack.                                                          *)
(*  - A call on the classifier leaves its outcome in `answer`: the value   *)
(*    returned, or the name of the exception raised.                       *)
(***************************************************************************)
EXTENDS Integers, Sequences, FiniteSets

\* Largest number of rows of a training set of two or more features; a
\* narrower training set may have one row more.
MaxRows == 3

\* Feature values, class labels, feature counts of the training sets tried.
Values == 0..2
Labels == 0..1
FeatureCounts == 0..2
RowCounts(d) == IF d <= 1 THEN 1..(MaxRows + 1) ELSE 1..MaxRows

None == <<>>
Some(v) == <<v>>

VARIABLES
  max_depth,          \* self.max_depth: None or Some(depth)
  min_samples_split,  \* self.min_samples_split
  root,               \* self.root: None or Some(node id)
  n_classes,          \* self.n_classes (set by fit)
  n_features,         \* self.n_features (set by fit)
  X, y,               \* the arrays given to fit
  nodes,              \* the Node objects created so far: node id -> fields
  stack,              \* the active build_tree calls, innermost last
  built,              \* per build_tree call that ran: what it was given and found
  pc,                 \* "new", "building", "fitted", "raised" (a first fit failed)
  split_in,           \* arguments of a direct best_split call
  split_out,          \* its result
  asked,              \* the last call made on the classifier: None or [op, arg]
  answer,             \* its outcome: None while it runs, else [value, raised]
  prior               \* while a later fit runs: the tree self.root still refers
                      \* to, Some([root, nodes]); None otherwise

vars == <<max_depth, min_samples_split, root, n_classes, n_features, X, y,
          nodes, stack, built, pc, split_in, split_out, asked, answer, prior>>

----------------------------------------------------------------------------
(* calls and their outcomes *)

Call(op, arg) == [op |-> op, arg |-> arg]
Returned(v) == [value |-> v, raised |-> None]
Raised(e) == [value |-> None, raised |-> Some(e)]

----------------------------------------------------------------------------
(* numpy helpers *)

Min(S) == CHOOSE m \in S : \A o \in S : m <= o
Max(S) == CHOOSE m \in S : \A o \in S : m >= o

RECURSIVE SortedSeq(_)
SortedSeq(S) == IF S = {} THEN <<>> ELSE <<Min(S)>> \o SortedSeq(S \ {Min(S)})

Range(s) == {s[i] : i \in 1..Len(s)}

\* np.unique(a): the sorted distinct values of a
Unique(a) == SortedSeq(Range(a))

\* a[mask] for a boolean mask
RECURSIVE Select(_, _)
Select(a, mask) ==
  IF Len(a) = 0 THEN <<>>
  ELSE (IF Head(mask) THEN <<Head(a)>> ELSE <<>>) \o Select(Tail(a), Tail(mask))

\* ~mask
Invert(mask) == [i \in 1..Len(mask) |-> ~mask[i]]

\* len(y[y == cls])
CountOf(ys, cls) == Cardinality({i \in 1..Len(ys) : ys[i] = cls})

\* np.bincount(y): entry k + 1 is the number of occurrences of k, k = 0..max(y)
BinCount(ys) ==
  IF Len(ys) = 0 THEN <<>>
  ELSE [k \in 1..(Max(Range(ys)) + 1) |-> CountOf(ys, k - 1)]

\* np.bincount(y) raises ValueError on a negative entry
BinCountRaises(ys) == \E i \in 1..Len(ys) : ys[i] < 0

\* np.argmax(c) raises ValueError on an empty array
ArgMaxRaises(c) == Len(c) = 0

\* Variant of ArgMax: the last position of the maximum.
ArgMaxLast(c) == Max({k \in 1..Len(c) : \A j \in 1..Len(c) : c[j] <= c[k]}) - 1

\* np.argmax(c): the first position (0-based) of the maximum
ArgMax(c) == Min({k \in 1..Len(c) : \A j \in 1..Len(c) : c[j] <= c[k]}) - 1

----------------------------------------------------------------------------
(* fixed point arithmetic *)

\* np.log2(k) for an integer k, in millionths
Log2Fix(k) ==
  CASE k = 1 -> 0
    [] k = 2 -> 1000000
    [] k = 3 -> 1584963
    [] k = 4 -> 2000000
    [] k = 5 -> 2321928
    [] k = 6 -> 2584963
    [] k = 7 -> 2807355
    [] k = 8 -> 3000000

RECURSIVE Factorial(_)
Factorial(n) == IF n <= 1 THEN 1 ELSE n * Factorial(n - 1)

\* Every proportion has a denominator dividing Denominator.
Denominator == Factorial(MaxRows + 1)

\* The float 1.0
FixOne == Log2Fix(2) * Denominator

\* p * np.log2(p) for p = c / n
PLog2P(c, n) == (c * (Log2Fix(c) - Log2Fix(n)) * Denominator) \div n

\* the proportions p the class loop passes to np.log2, as counts over len(y)
Proportions(ys) ==
  [i \in 1..Len(Unique(ys)) |-> [num |-> CountOf(ys, Unique(ys)[i]), den |-> Len(ys)]]

\* Variant of SumPLog2P: the terms p * log2(p) are added (entropy += ...).
RECURSIVE SumPLog2PAdded(_, _, _)
SumPLog2PAdded(ys, classes, i) ==
  IF i > Len(classes) THEN 0
  ELSE SumPLog2PAdded(ys, classes, i + 1) + PLog2P(CountOf(ys, classes[i]), Len(ys))

RECURSIVE SumPLog2P(_, _, _)
SumPLog2P(ys, classes, i) ==
  IF i > Len(classes) THEN 0
  ELSE SumPLog2P(ys, classes, i + 1) - PLog2P(CountOf(ys, classes[i]), Len(ys))

\* DecisionTreeClassifier.entropy
Entropy(ys) == SumPLog2P(ys, Unique(ys), 1)

\* Variant of InformationGain: the children's entropies are not weighted.
InformationGainUnweighted(parent, left_child, right_child) ==
  Entropy(parent) - (Entropy(left_child) + Entropy(right_child))

\* DecisionTreeClassifier.information_gain
InformationGain(parent, left_child, right_child) ==
  Entropy(parent)
    - ( (Len(left_child) * Entropy(left_child)) \div Len(parent)
      + (Len(right_child) * Entropy(right_child)) \div Len(parent) )

----------------------------------------------------------------------------
(* best_split *)

\* X[:, feature_index]
Column(Xs, feature_index) == [i \in 1..Len(Xs) |-> Xs[i][feature_index + 1]]

\* X.shape[1]. An array is written as the sequence of its rows, which tells
\* its number of columns when there is a row; the one array without rows that
\* is written <<>> is the one without columns, np.empty((0, 0)). Arrays of
\* shape (0, d) with d > 0 are not among the inputs.
NumFeatures(Xs) == IF Len(Xs) = 0 THEN 0 ELSE Len(Xs[1])

\* Variant of Thresholds: the midpoints of consecutive distinct values.
ThresholdsMidpoints(feature_values) ==
  LET u == Unique(feature_values)
  IN [i \in 1..(Len(u) - 1) |-> (u[i] + u[i + 1]) \div 2]

\* thresholds = np.unique(feature_values)
Thresholds(feature_values) == Unique(feature_values)

\* Variant of LeftMask: the rows equal to the threshold go right.
LeftMaskStrict(feature_values, threshold) ==
  [i \in 1..Len(feature_values) |-> feature_values[i] < threshold]

\* left_mask = feature_values <= threshold
LeftMask(feature_values, threshold) ==
  [i \in 1..Len(feature_values) |-> feature_values[i] <= threshold]

\* Variant of RightMask: the mask is not inverted.
RightMaskSame(left_mask) == left_mask

\* right_mask = ~left_mask
RightMask(left_mask) == Invert(left_mask)

\* Variant of EmptySide: a split with an empty side is not skipped.
EmptySideNever(y_left, y_right) == FALSE

\* Variant of EmptySide: only the left side is tested.
EmptySideLeftOnly(y_left, y_right) == Len(y_left) = 0

\* the test guarding "continue"
EmptySide(y_left, y_right) == Len(y_left) = 0 \/ Len(y_right) = 0

\* Variant of Improves: a later candidate of equal gain replaces the best.
ImprovesOrTies(gain, best_gain) == gain >= best_gain

\* gain > best_gain
Improves(gain, best_gain) == gain > best_gain

\* Variant of NoBest: best_gain starts at 0.
NoBestZero == [gain |-> 0, split |-> None]

\* best_gain = -1, best_split = None
NoBest == [gain |-> 0 - FixOne, split |-> None]

\* the dict stored in best_split
SplitDict(feature_index, threshold, gain) ==
  [feature_index |-> feature_index, threshold |-> threshold, info_gain |-> gain]

\* one pass of the inner loop
TryThreshold(ys, feature_values, feature_index, threshold, best) ==
  LET left_mask == LeftMask(feature_values, threshold)
      right_mask == RightMask(left_mask)
      y_left == Select(ys, left_mask)
      y_right == Select(ys, right_mask)
  IN IF EmptySide(y_left, y_right) THEN best
     ELSE LET gain == InformationGain(ys, y_left, y_right)
          IN IF Improves(gain, best.gain)
             THEN [gain |-> gain,
                   split |-> Some(SplitDict(feature_index, threshold, gain))]
             ELSE best

RECURSIVE ScanThresholds(_, _, _, _, _, _)
ScanThresholds(ys, feature_values, feature_index, thresholds, i, best) ==
  IF i > Len(thresholds) THEN best
  ELSE ScanThresholds(ys, feature_values, feature_index, thresholds, i + 1,
         TryThreshold(ys, feature_values, feature_index, thresholds[i], best))

RECURSIVE ScanFeatures(_, _, _, _)
ScanFeatures(Xs, ys, feature_index, best) ==
  IF feature_index >= NumFeatures(Xs) THEN best
  ELSE LET feature_values == Column(Xs, feature_index)
       IN ScanFeatures(Xs, ys, feature_index + 1,
            ScanThresholds(ys, feature_values, feature_index,
                           Thresholds(feature_values), 1, best))

\* y[left_mask] raises IndexError when the mask, as long as X, is not as long
\* as y; best_split reaches it on its first candidate
BestSplitRaises(Xs, ys) ==
  NumFeatures(Xs) > 0 /\ Len(LeftMask(Column(Xs, 0), 0)) # Len(ys)

\* DecisionTreeClassifier.best_split: None or Some(dict)
BestSplit(Xs, ys) == ScanFeatures(Xs, ys, 0, NoBest).split

----------------------------------------------------------------------------
(* build_tree *)

\* X[rows], y[rows] of the arrays given to fit
SubX(rows) == [i \in 1..Len(rows) |-> X[rows[i]]]
SubY(rows) == [i \in 1..Len(rows) |-> y[rows[i]]]

\* the y given to a build_tree call: fit passes its own y, a recursive call
\* passes y[mask]
ArgY(fr) == IF fr.depth = 0 THEN y ELSE SubY(fr.rows)

\* Node.__init__
NewNode ==
  [feature_index |-> None, threshold |-> None, left |-> None, right |-> None,
   value |-> None, info_gain |-> None]

\* Variant of StopCriteria: the depth test is depth > max_depth.
StopCriteriaLate(depth, n_samples, n_cls) ==
  \/ (max_depth # None /\ depth > max_depth[1])
  \/ n_samples < min_samples_split
  \/ n_cls = 1

\* Variant of StopCriteria: the size test is n_samples <= min_samples_split.
StopCriteriaInclusive(depth, n_samples, n_cls) ==
  \/ (max_depth # None /\ depth >= max_depth[1])
  \/ n_samples <= min_samples_split
  \/ n_cls = 1

\* Variant of StopCriteria: a subset of a single class is not stopped.
StopCriteriaNoPurity(depth, n_samples, n_cls) ==
  \/ (max_depth # None /\ depth >= max_depth[1])
  \/ n_samples < min_samples_split

\* Variant of StopCriteria: max_depth is tested for truth, so that 0 counts
\* as unset.
StopCriteriaTruthy(depth, n_samples, n_cls) ==
  \/ (max_depth # None /\ max_depth[1] # 0 /\ depth >= max_depth[1])
  \/ n_samples < min_samples_split
  \/ n_cls = 1

\* Variant of StopCriteria: the size of the subset is not tested.
StopCriteriaNoSize(depth, n_samples, n_cls) ==
  \/ (max_depth # None /\ depth >= max_depth[1])
  \/ n_cls = 1

\* the stopping criteria of build_tree
StopCriteria(depth, n_samples, n_cls) ==
  \/ (max_depth # None /\ depth >= max_depth[1])
  \/ n_samples < min_samples_split
  \/ n_cls = 1

\* leaf_value = np.argmax(np.bincount(y))
LeafValue(ys) == ArgMax(BinCount(ys))

\* the same line raising
LeafValueRaises(ys) == BinCountRaises(ys) \/ ArgMaxRaises(BinCount(ys))

\* leaf = Node(); leaf.value = leaf_value
LeafNode(ys) == [NewNode EXCEPT !.value = Some(LeafValue(ys))]

\* node = Node(); node.feature_index = ...; node.threshold = ...; node.info_gain = ...
DecisionNode(best_split) ==
  [NewNode EXCEPT !.feature_index = Some(best_split.feature_index),
                  !.threshold = Some(best_split.threshold),
                  !.info_gain = Some(best_split.info_gain)]

\* Variant of LeftRows: build_tree takes the left rows with
\* X[:, feature_index] < threshold.
LeftRowsStrict(rows, feature_index, threshold) ==
  Select(rows, LeftMaskStrict(Column(SubX(rows), feature_index), threshold))

\* the rows of X[left_mask] for left_mask = X[:, feature_index] <= threshold
LeftRows(rows, feature_index, threshold) ==
  Select(rows, LeftMask(Column(SubX(rows), feature_index), threshold))

\* the rows of X[right_mask] for right_mask = ~left_mask
RightRows(rows, feature_index, threshold) ==
  Select(rows, RightMask(LeftMask(Column(SubX(rows), feature_index), threshold)))

\* a build_tree call that has not run yet
CallFrame(path, rows, depth) ==
  [path |-> path, rows |-> rows, depth |-> depth, stage |-> "call",
   right_rows |-> <<>>]

Top(stk) == stk[Len(stk)]
Pop(stk) == SubSeq(stk, 1, Len(stk) - 1)

\* node.left = <the returned node>, then the call building the right child
AttachLeft(nds, path, ref) == [nds EXCEPT ![path].left = Some(ref)]

\* Variant of AttachRight: the returned node is not stored.
AttachRightLost(nds, path, ref) == nds

\* node.right = <the returned node>
AttachRight(nds, path, ref) == [nds EXCEPT ![path].right = Some(ref)]

\* A build_tree call returns the node ref: to fit when no call is active (which
\* stores it in self.root), else to the caller, which either goes on to build
\* its right child or stores it as node.right and returns its own node.
RECURSIVE Return(_, _, _)
Return(stk, nds, ref) ==
  IF Len(stk) = 0
  THEN [stack |-> <<>>, nodes |-> nds, root |-> Some(ref), pc |-> "fitted"]
  ELSE LET caller == Top(stk)
       IN IF caller.stage = "left"
          THEN [stack |-> Append(Append(Pop(stk), [caller EXCEPT !.stage = "right"]),
                                 CallFrame(Append(caller.path, 1), caller.right_rows,
                                           caller.depth + 1)),
                nodes |-> AttachLeft(nds, caller.path, ref),
                root |-> root,
                pc |-> "building"]
          ELSE Return(Pop(stk), AttachRight(nds, caller.path, ref), caller.path)

----------------------------------------------------------------------------
(* the classifier as a state machine *)

DepthOptions == {None} \cup {Some(d) : d \in 0..(MaxRows - 2)}
SplitOptions == 2..MaxRows

Matrices(n, d) == [1..n -> [1..d -> Values]]
LabelVectors(n) == [1..n -> Labels]

\* DecisionTreeClassifier.__init__
Init ==
  /\ max_depth \in DepthOptions
  /\ min_samples_split \in SplitOptions
  /\ root = None
  /\ n_classes = None
  /\ n_features = None
  /\ X = <<>>
  /\ y = <<>>
  /\ nodes = <<>>
  /\ stack = <<>>
  /\ built = <<>>
  /\ pc = "new"
  /\ split_in = None
  /\ split_out = None
  /\ asked = None
  /\ answer = None
  /\ prior = None

\* Variant of Fit: the labels are shifted in place to start at 0 before the
\* tree is built (y -= y.min()), so that the caller's y is changed.
FitInPlace(Xin, yin) ==
  LET shifted == IF Len(yin) = 0 THEN yin
                 ELSE [i \in 1..Len(yin) |-> yin[i] - Min(Range(yin))]
  IN /\ n_classes' = Some(Len(Unique(shifted)))
     /\ n_features' = Some(NumFeatures(Xin))
     /\ X' = Xin
     /\ y' = shifted
     /\ stack' = <<CallFrame(<<>>, [i \in 1..Len(Xin) |-> i], 0)>>
     /\ pc' = "building"
     /\ prior' = IF root = None THEN None
                  ELSE Some([root |-> root, nodes |-> nodes])
     /\ nodes' = <<>>
     /\ built' = <<>>
     /\ asked' = Some(Call("fit", <<Xin, yin>>))
     /\ answer' = None
     /\ UNCHANGED <<max_depth, min_samples_split, root, split_in, split_out>>

\* DecisionTreeClassifier.fit, up to the call of build_tree. Until build_tree
\* returns, self.root is what it was: on a classifier fitted before, the
\* earlier tree, set aside in prior while the nodes of the new one are created.
Fit(Xin, yin) ==
  /\ n_classes' = Some(Len(Unique(yin)))
  /\ n_features' = Some(NumFeatures(Xin))
  /\ X' = Xin
  /\ y' = yin
  /\ stack' = <<CallFrame(<<>>, [i \in 1..Len(Xin) |-> i], 0)>>
  /\ pc' = "building"
  /\ prior' = IF root = None THEN None
               ELSE Some([root |-> root, nodes |-> nodes])
  /\ nodes' = <<>>
  /\ built' = <<>>
  /\ asked' = Some(Call("fit", <<Xin, yin>>))
  /\ answer' = None
  /\ UNCHANGED <<max_depth, min_samples_split, root, split_in, split_out>>

\* a caller fits a new classifier on some training set
FitAny ==
  /\ pc = "new"
  /\ \E d \in FeatureCounts : \E n \in RowCounts(d) :
       \E Xin \in Matrices(n, d), yin \in LabelVectors(n) : Fit(Xin, yin)

Running == pc = "building" /\ Len(stack) > 0 /\ Top(stack).stage = "call"

\* the record of a call: the rows and depth it was given, whether it called
\* best_split and what best_split returned
Given(fr, searched, found) ==
  [rows |-> fr.rows, depth |-> fr.depth, searched |-> searched, found |-> found]

Extend(f, k, v) == [p \in DOMAIN f \cup {k} |-> IF p = k THEN v ELSE f[p]]

\* build_tree ending in the leaf of `ys`, and the returns that follow
EmitLeaf(fr, ys, searched) ==
  LET r == Return(Pop(stack), Extend(nodes, fr.path, LeafNode(ys)), fr.path)
  IN /\ nodes' = r.nodes
     /\ stack' = r.stack
     /\ root' = r.root
     /\ pc' = r.pc
     /\ built' = Extend(built, fr.path, Given(fr, searched, None))
     /\ answer' = IF r.pc = "fitted" THEN Returned(None) ELSE answer
     /\ prior' = IF r.pc = "fitted" THEN None ELSE prior

\* build_tree ending in an exception, which fit lets through: self.root is
\* not assigned, so the classifier keeps the tree it had, if any
RaiseInBuild(fr, searched, e) ==
  /\ stack' = <<>>
  /\ built' = Extend(built, fr.path, Given(fr, searched, None))
  /\ answer' = Raised(e)
  /\ pc' = IF prior = None THEN "raised" ELSE "fitted"
  /\ nodes' = IF prior = None THEN nodes ELSE prior[1].nodes
  /\ prior' = None
  /\ UNCHANGED root

\* build_tree creating a decision node, up to the call building its left child
EmitDecision(fr, best_split) ==
  LET f == best_split.feature_index
      t == best_split.threshold
  IN /\ nodes' = Extend(nodes, fr.path, DecisionNode(best_split))
     /\ built' = Extend(built, fr.path, Given(fr, TRUE, Some(best_split)))
     /\ stack' = Append(
          Append(Pop(stack),
                 [fr EXCEPT !.stage = "left", !.right_rows = RightRows(fr.rows, f, t)]),
          CallFrame(Append(fr.path, 0), LeftRows(fr.rows, f, t), fr.depth + 1))
     /\ UNCHANGED <<root, pc, answer, prior>>

\* one call of build_tree, from its entry to its return or to its first
\* recursive call
BuildTree ==
  /\ Running
  /\ LET fr == Top(stack)
         Xs == SubX(fr.rows)
         ys == ArgY(fr)
     IN IF StopCriteria(fr.depth, Len(Xs), Len(Unique(ys)))
        THEN IF LeafValueRaises(ys)
             THEN RaiseInBuild(fr, FALSE, "ValueError")
             ELSE EmitLeaf(fr, ys, FALSE)
        ELSE IF BestSplitRaises(Xs, ys)
        THEN RaiseInBuild(fr, TRUE, "IndexError")
        ELSE LET best_split == BestSplit(Xs, ys)
             IN IF best_split = None
                THEN IF LeafValueRaises(ys)
                     THEN RaiseInBuild(fr, TRUE, "ValueError")
                     ELSE EmitLeaf(fr, ys, TRUE)
                ELSE EmitDecision(fr, best_split[1])
  /\ UNCHANGED <<max_depth, min_samples_split, n_classes, n_features, X, y,
                 split_in, split_out, asked>>

Next == FitAny \/ BuildTree

Spec == Init /\ [][Next]_vars

----------------------------------------------------------------------------
(* best_split called on its own, on a classifier built with the defaults *)

SplitInit == Init /\ max_depth = None /\ min_samples_split = 2

CallBestSplit(Xs, ys) ==
  /\ split_in' = Some([X |-> Xs, y |-> ys])
  /\ split_out' = BestSplit(Xs, ys)
  /\ pc' = "queried"
  /\ UNCHANGED <<max_depth, min_samples_split, root, n_classes, n_features, X, y,
                 nodes, stack, built, asked, answer, prior>>

SplitAny ==
  /\ pc = "new"
  /\ \E d \in FeatureCounts : \E n \in RowCounts(d) \cup (IF d = 0 THEN {0} ELSE {}) :
       \E Xs \in Matrices(n, d), ys \in LabelVectors(n) : CallBestSplit(Xs, ys)

SplitSpec == SplitInit /\ [][SplitAny]_vars

----------------------------------------------------------------------------
(* predict_single, predict, visualize_tree *)

\* Variant of PredictSingle: the walk goes left on x[feature_index] < threshold.
RECURSIVE PredictSingleStrict(_, _)
PredictSingleStrict(x, node) ==
  LET nd == nodes[node[1]]
  IN IF nd.value # None THEN Returned(nd.value[1])
     ELSE IF nd.feature_index[1] >= Len(x) THEN Raised("IndexError")
     ELSE IF x[nd.feature_index[1] + 1] < nd.threshold[1]
          THEN PredictSingleStrict(x, nd.left)
          ELSE PredictSingleStrict(x, nd.right)

\* Variant of PredictSingle: the leaf test is the truth of node.value
\* (if node.value:), so that a leaf of class 0 is taken for a decision node and
\* its threshold, None, is compared with x, which raises TypeError.
RECURSIVE PredictSingleTruthy(_, _)
PredictSingleTruthy(x, node) ==
  LET nd == nodes[node[1]]
  IN IF nd.value # None /\ nd.value[1] # 0 THEN Returned(nd.value[1])
     ELSE IF nd.value # None THEN Raised("TypeError")
     ELSE IF nd.feature_index[1] >= Len(x) THEN Raised("IndexError")
     ELSE IF x[nd.feature_index[1] + 1] <= nd.threshold[1]
          THEN PredictSingleTruthy(x, nd.left)
          ELSE PredictSingleTruthy(x, nd.right)

\* DecisionTreeClassifier.predict_single(x, node), node a reference to a Node:
\* the value returned, or IndexError when x has no position feature_index
RECURSIVE PredictSingle(_, _)
PredictSingle(x, node) ==
  LET nd == nodes[node[1]]
  IN IF nd.value # None THEN Returned(nd.value[1])
     ELSE IF nd.feature_index[1] >= Len(x) THEN Raised("IndexError")
     ELSE IF x[nd.feature_index[1] + 1] <= nd.threshold[1]
          THEN PredictSingle(x, nd.left)
          ELSE PredictSingle(x, nd.right)

\* Variant of Predict: the labels are collected last row first.
PredictReversed(Xq) ==
  LET outs == [i \in 1..Len(Xq) |-> PredictSingle(Xq[Len(Xq) + 1 - i], root)]
      bad == {i \in 1..Len(Xq) : outs[i].raised # None}
  IN IF bad # {} THEN outs[Min(bad)]
     ELSE Returned([i \in 1..Len(Xq) |-> outs[i].value])

\* DecisionTreeClassifier.predict(X): the labels of the rows in order, or the
\* exception of the first row that raises
Predict(Xq) ==
  LET outs == [i \in 1..Len(Xq) |-> PredictSingle(Xq[i], root)]
      bad == {i \in 1..Len(Xq) : outs[i].raised # None}
  IN IF bad # {} THEN outs[Min(bad)]
     ELSE Returned([i \in 1..Len(Xq) |-> outs[i].value])

\* f'{gain:.4f}': the gain in ten-thousandths
Round4(gain) == (gain + FixOne \div 20000) \div (FixOne \div 10000)

\* add_nodes(node, node_id) of visualize_tree: the dot.node and dot.edge calls
\* it makes. A node id is the string of digits '0', '00', '01', ...
RECURSIVE AddNodes(_, _)
AddNodes(node, node_id) ==
  LET nd == nodes[node[1]]
      left_id == Append(node_id, 0)
      right_id == Append(node_id, 1)
  IN IF nd.value # None
     THEN {<<"node", node_id, <<"Class", nd.value[1]>>>>}
     ELSE {<<"node", node_id,
             <<"X", nd.feature_index[1], nd.threshold[1], Round4(nd.info_gain[1])>>>>}
          \cup AddNodes(nd.left, left_id)
          \cup {<<"edge", node_id, left_id, "True">>}
          \cup AddNodes(nd.right, right_id)
          \cup {<<"edge", node_id, right_id, "False">>}

CallPredictSingle(x) ==
  /\ asked' = Some(Call("predict_single", x))
  /\ answer' = PredictSingle(x, root)
  /\ UNCHANGED <<max_depth, min_samples_split, root, n_classes, n_features, X, y,
                 nodes, stack, built, pc, split_in, split_out, prior>>

CallPredict(Xq) ==
  /\ asked' = Some(Call("predict", Xq))
  /\ answer' = Predict(Xq)
  /\ UNCHANGED <<max_depth, min_samples_split, root, n_classes, n_features, X, y,
                 nodes, stack, built, pc, split_in, split_out, prior>>

VisualizeTree ==
  /\ pc = "fitted"
  /\ asked' = Some(Call("visualize_tree", <<>>))
  /\ answer' = Returned(AddNodes(root, <<0>>))
  /\ UNCHANGED <<max_depth, min_samples_split, root, n_classes, n_features, X, y,
                 nodes, stack, built, pc, split_in, split_out, prior>>

----------------------------------------------------------------------------
(* a classifier built with the defaults, fitted and then used *)

QueryRowCounts(d) == IF d <= 1 THEN 1..MaxRows ELSE 1..(MaxRows - 1)

\* the vectors given to predict_single: those of the training width, and each
\* of them with its last entry dropped and with one more entry
Vectors == [1..n_features[1] -> Values]
Queries ==
  Vectors
    \cup {SubSeq(x, 1, Len(x) - 1) : x \in {v \in Vectors : Len(v) > 0}}
    \cup {Append(x, 0) : x \in Vectors}

\* the X given to predict: the training rows in their order or reversed
Reverse(s) == [i \in 1..Len(s) |-> s[Len(s) + 1 - i]]
Batches == {X, Reverse(X)}

QueryInit == Init /\ max_depth = None /\ min_samples_split = 2

FitQueryAny ==
  /\ pc = "new"
  /\ \E d \in FeatureCounts : \E n \in QueryRowCounts(d) :
       \E Xin \in Matrices(n, d), yin \in LabelVectors(n) : Fit(Xin, yin)

PredictSingleAny ==
  /\ pc = "fitted"
  /\ \E x \in Queries : CallPredictSingle(x)

PredictAny ==
  /\ pc = "fitted"
  /\ \E Xq \in Batches : CallPredict(Xq)

\* fit called again on the fitted classifier, here on its first training row
\* alone with either label
RefitAny ==
  /\ pc = "fitted"
  /\ \E l \in Labels : Fit(<<X[1]>>, <<l>>)

QueryNext ==
  FitQueryAny \/ BuildTree \/ PredictSingleAny \/ PredictAny \/ VisualizeTree \/ RefitAny

QuerySpec == QueryInit /\ [][QueryNext]_vars

----------------------------------------------------------------------------
(* a classifier built with the defaults, fitted on one feature of a wider *)
(* range of values and then asked for predictions                         *)

StepValues == 0..MaxRows

FitStepAny ==
  /\ pc = "new"
  /\ \E n \in 1..(MaxRows + 1) :
       \E Xin \in [1..n -> [1..1 -> StepValues]], yin \in LabelVectors(n) :
          Fit(Xin, yin)

PredictStepAny ==
  /\ pc = "fitted"
  /\ \E v \in StepValues : CallPredictSingle(<<v>>)

StepNext == FitStepAny \/ BuildTree \/ PredictStepAny

StepSpec == QueryInit /\ [][StepNext]_vars

----------------------------------------------------------------------------
(* a classifier built with the defaults, fitted and then asked to predict *)
(* a batch of rows                                                        *)

\* the X given to predict: no row, one or two vectors of the training width,
\* the training rows in their order or reversed
RowBatches ==
  {<<>>} \cup {<<x>> : x \in Vectors} \cup {<<x, z>> : x, z \in Vectors} \cup Batches

PredictBatchAny ==
  /\ pc = "fitted"
  /\ \E Xq \in RowBatches : CallPredict(Xq)

BatchNext == FitQueryAny \/ BuildTree \/ PredictBatchAny

BatchSpec == QueryInit /\ [][BatchNext]_vars

----------------------------------------------------------------------------
(* a classifier fitted, and best_split then called on it directly, on the *)
(* first rows of the training set                                         *)

SplitFittedAny ==
  /\ pc = "fitted"
  /\ \E k \in 1..Len(X) : CallBestSplit(SubSeq(X, 1, k), SubSeq(y, 1, k))

ReadNext == FitQueryAny \/ BuildTree \/ SplitFittedAny

ReadSpec == QueryInit /\ [][ReadNext]_vars

----------------------------------------------------------------------------
(* entropy called on its own, on label vectors of up to three classes *)

EntropyLabels == 0..2
EntropyInputs == UNION {[1..n -> EntropyLabels] : n \in 1..(MaxRows + 1)}

CallEntropy(ys) ==
  /\ asked' = Some(Call("entropy", ys))
  /\ answer' = Returned(Entropy(ys))
  /\ pc' = "queried"
  /\ UNCHANGED <<max_depth, min_samples_split, root, n_classes, n_features, X, y,
                 nodes, stack, built, split_in, split_out, prior>>

EntropyAny ==
  /\ pc = "new"
  /\ \E ys \in EntropyInputs : CallEntropy(ys)

EntropySpec == QueryInit /\ [][EntropyAny]_vars

----------------------------------------------------------------------------
(* the k-nearest-neighbours classifier: euclidean_distance, get_k_neighbors, *)
(* predict_classification                                                    *)

\* np.sqrt(s) for an integer s, in thousandths
SqrtFix(s) ==
  CASE s = 0 -> 0
    [] s = 1 -> 1000
    [] s = 2 -> 1414
    [] s = 3 -> 1732
    [] s = 4 -> 2000
    [] s = 5 -> 2236
    [] s = 6 -> 2449
    [] s = 7 -> 2645
    [] s = 8 -> 2828

\* np.sum((point1 - point2) ** 2)
RECURSIVE SumSquares(_, _, _)
SumSquares(point1, point2, i) ==
  IF i > Len(point1) THEN 0
  ELSE (point1[i] - point2[i]) * (point1[i] - point2[i])
         + SumSquares(point1, point2, i + 1)

\* euclidean_distance(point1, point2)
EuclideanDistance(point1, point2) == SqrtFix(SumSquares(point1, point2, 1))

\* the list distances of get_k_neighbors before it is sorted: a pair
\* (distance, label) per training point, in training order
DistanceList(X_train, y_train, test_point) ==
  [idx \in 1..Len(X_train) |->
     <<EuclideanDistance(X_train[idx], test_point), y_train[idx]>>]

\* Variant of InsertSorted: the pair is placed before the pairs of equal
\* distance (an unstable sort).
InsertSortedBefore(sorted, pair) ==
  LET ahead == Cardinality({j \in 1..Len(sorted) : sorted[j][1] < pair[1]})
  IN SubSeq(sorted, 1, ahead) \o <<pair>> \o SubSeq(sorted, ahead + 1, Len(sorted))

\* a pair takes its place in a list sorted by distance: after the pairs of
\* smaller or equal distance (list.sort is stable)
InsertSorted(sorted, pair) ==
  LET ahead == Cardinality({j \in 1..Len(sorted) : sorted[j][1] <= pair[1]})
  IN SubSeq(sorted, 1, ahead) \o <<pair>> \o SubSeq(sorted, ahead + 1, Len(sorted))

\* distances.sort(key=lambda x: x[0]), on the first i pairs of the list
RECURSIVE SortByDistance(_, _)
SortByDistance(distances, i) ==
  IF i = 0 THEN <<>>
  ELSE InsertSorted(SortByDistance(distances, i - 1), distances[i])

\* get_k_neighbors: the labels of distances[:k] after the sort
GetKNeighbors(X_train, y_train, test_point, k) ==
  LET distances == DistanceList(X_train, y_train, test_point)
      sorted == SortByDistance(distances, Len(distances))
  IN [i \in 1..Min({k, Len(sorted)}) |-> sorted[i][2]]

\* Counter(neighbors): the pairs (label, count) in the order in which the
\* labels first occur in neighbors
Counter(neighbors) ==
  LET first == {i \in 1..Len(neighbors) :
                  \A j \in 1..(i - 1) : neighbors[j] # neighbors[i]}
      order == SortedSeq(first)
  IN [n \in 1..Len(order) |->
        <<neighbors[order[n]], CountOf(neighbors, neighbors[order[n]])>>]

\* Variant of MostCommon: of the labels of highest count the last counted wins.
MostCommonLast(vote_counts) ==
  LET best == {n \in 1..Len(vote_counts) :
                 \A m \in 1..Len(vote_counts) : vote_counts[m][2] <= vote_counts[n][2]}
  IN vote_counts[Max(best)][1]

\* vote_counts.most_common(1)[0][0]: of the labels of highest count the one
\* counted first
MostCommon(vote_counts) ==
  LET best == {n \in 1..Len(vote_counts) :
                 \A m \in 1..Len(vote_counts) : vote_counts[m][2] <= vote_counts[n][2]}
  IN vote_counts[Min(best)][1]

\* predict_classification(X_train, y_train, test_point, k)
PredictClassification(X_train, y_train, test_point, k) ==
  MostCommon(Counter(GetKNeighbors(X_train, y_train, test_point, k)))

\* the training sets, test points and k tried: one or two coordinates, labels
\* of three classes, k up to one more than the number of training points
KnnDims == 1..2
KnnLabels == 0..2
KnnPoints(d) == [1..d -> Values]

CallPredictClassification(X_train, y_train, test_point, k) ==
  /\ asked' = Some(Call("predict_classification",
                        [X_train |-> X_train, y_train |-> y_train,
                         test_point |-> test_point, k |-> k]))
  /\ answer' = Returned(PredictClassification(X_train, y_train, test_point, k))
  /\ pc' = "queried"
  /\ UNCHANGED <<max_depth, min_samples_split, root, n_classes, n_features, X, y,
                 nodes, stack, built, split_in, split_out, prior>>

KnnAny ==
  /\ pc = "new"
  /\ \E d \in KnnDims : \E n \in QueryRowCounts(d) :
       \E X_train \in [1..n -> KnnPoints(d)], y_train \in [1..n -> KnnLabels],
          test_point \in KnnPoints(d), k \in 1..(n + 1) :
            CallPredictClassification(X_train, y_train, test_point, k)

KnnSpec == QueryInit /\ [][KnnAny]_vars

----------------------------------------------------------------------------
(* fit called with whatever a caller may pass: no rows, no columns, a y of *)
(* another length than X, negative labels                                  *)

RawLabels == (0 - 1)..1
RawRowCounts(d) ==
  IF d = 0 THEN 0..MaxRows ELSE IF d = 1 THEN 1..MaxRows ELSE 1..(MaxRows - 1)
RawLabelVectors == UNION {[1..n -> RawLabels] : n \in 0..MaxRows}

FitRawAny ==
  /\ pc = "new"
  /\ \E d \in FeatureCounts : \E n \in RawRowCounts(d) :
       \E Xin \in Matrices(n, d), yin \in RawLabelVectors : Fit(Xin, yin)

RawNext == FitRawAny \/ BuildTree

RawSpec == Init /\ [][RawNext]_vars

----------------------------------------------------------------------------
(* vocabulary of the properties *)

IsLeaf(p) == nodes[p].value # None
Parent(p) == SubSeq(p, 1, Len(p) - 1)

\* the labels y[i], in order, of the rows i of Xs that satisfy Keep
LabelsWhere(Xs, ys, Keep(_)) ==
  LET idx == SelectSeq([i \in 1..Len(Xs) |-> i], Keep)
  IN [k \in 1..Len(idx) |-> ys[idx[k]]]

LabelsLeft(Xs, ys, f, t) == LabelsWhere(Xs, ys, LAMBDA i : Xs[i][f + 1] <= t)
LabelsRight(Xs, ys, f, t) == LabelsWhere(Xs, ys, LAMBDA i : Xs[i][f + 1] > t)

\* impurity(y) - (w_left * impurity(y_left) + w_right * impurity(y_right)) of
\* splitting (Xs, ys) on feature f at threshold t, w the relative sizes
GainOn(Xs, ys, f, t) ==
  LET y_left == LabelsLeft(Xs, ys, f, t)
      y_right == LabelsRight(Xs, ys, f, t)
  IN Entropy(ys) - ( (Len(y_left) * Entropy(y_left)) \div Len(ys)
                   + (Len(y_right) * Entropy(y_right)) \div Len(ys) )

\* the values of column f of Xs
ColumnValues(Xs, f) == {Xs[i][f + 1] : i \in 1..Len(Xs)}

\* the candidates (feature, threshold) of Xs whose two partitions are non-empty
Viable(Xs) ==
  {c \in (0..(NumFeatures(Xs) - 1)) \X Values :
     /\ c[2] \in ColumnValues(Xs, c[1])
     /\ \E i \in 1..Len(Xs) : Xs[i][c[1] + 1] > c[2]}

\* candidate c comes before candidate e in the order best_split enumerates them
Before(c, e) == c[1] < e[1] \/ (c[1] = e[1] /\ c[2] < e[2])

\* the labels with the highest count in ys
MostFrequent(ys) ==
  {l \in Range(ys) : \A m \in Range(ys) : CountOf(ys, m) <= CountOf(ys, l)}

\* the rows of a call, as a set
RowSet(p) == Range(built[p].rows)

----------------------------------------------------------------------------
(* C1..C10 *)

\* C1: for every well-formed (X, y) and every max_depth and min_samples_split
\* fit terminates: every build_tree call other than the first has a depth one
\* more than its caller's and a row subset strictly smaller than (and part of)
\* its caller's, so fit makes at most 2 * len(X) - 1 calls, and until fit has
\* returned there is a build_tree call ready to run.
C1_FitTerminates ==
  /\ \A i \in 1..Len(stack) :
       /\ stack[i].depth = i - 1
       /\ i > 1 => /\ Len(stack[i].rows) < Len(stack[i - 1].rows)
                   /\ Range(stack[i].rows) \subseteq Range(stack[i - 1].rows)
  /\ \A p \in DOMAIN built :
       p # <<>> =>
         /\ Parent(p) \in DOMAIN built
         /\ built[p].depth = built[Parent(p)].depth + 1
         /\ Len(built[p].rows) < Len(built[Parent(p)].rows)
         /\ RowSet(p) \subseteq RowSet(Parent(p))
  /\ pc # "new" => Cardinality(DOMAIN built) <= 2 * Len(X) - 1
  /\ pc = "building" => Running

\* a fit that has returned after recursing two levels deep
C1_Witness ==
  /\ pc = "fitted"
  /\ \E p \in DOMAIN built : built[p].depth = 2

\* C2: when max_depth is set, every node of the tree lies at depth <= max_depth
\* (root at depth 0).
C2_DepthBounded ==
  max_depth # None =>
    \A p \in DOMAIN nodes : Len(p) <= max_depth[1] /\ built[p].depth <= max_depth[1]

\* a fitted tree with a leaf that only the depth bound kept from being split
C2_Witness ==
  /\ pc = "fitted"
  /\ max_depth = Some(1)
  /\ \E p \in DOMAIN nodes :
       /\ IsLeaf(p)
       /\ built[p].depth = 1
       /\ Len(built[p].rows) >= min_samples_split
       /\ Cardinality(Range(SubY(built[p].rows))) > 1
       /\ Viable(SubX(built[p].rows)) # {}

\* C3 as claimed: every leaf has a single label in its training subset, or
\* fewer than min_samples_split rows, or sits at depth max_depth.
C3_LeafPureSmallOrDeepest ==
  \A p \in DOMAIN nodes :
    IsLeaf(p) =>
      \/ Cardinality(Range(SubY(built[p].rows))) = 1
      \/ Len(built[p].rows) < min_samples_split
      \/ (max_depth # None /\ built[p].depth = max_depth[1])

\* C3, amended: ... or no split of its training subset has two non-empty
\* sides (its rows agree on every feature).
C3_LeafCause ==
  \A p \in DOMAIN nodes :
    IsLeaf(p) =>
      \/ Cardinality(Range(SubY(built[p].rows))) = 1
      \/ Len(built[p].rows) < min_samples_split
      \/ (max_depth # None /\ built[p].depth = max_depth[1])
      \/ \A i, j \in RowSet(p) : X[i] = X[j]

\* a leaf of the fourth kind only, below the root
C3_Witness ==
  /\ pc = "fitted"
  /\ \E p \in DOMAIN nodes :
       /\ IsLeaf(p)
       /\ built[p].depth > 0
       /\ Cardinality(Range(SubY(built[p].rows))) > 1
       /\ Len(built[p].rows) >= min_samples_split
       /\ (max_depth = None \/ built[p].depth < max_depth[1])
       /\ \A i, j \in RowSet(p) : X[i] = X[j]

C5_NoneWhenNoGain ==
  \A p \in DOMAIN built :
    LET Xs == SubX(built[p].rows)
        ys == SubY(built[p].rows)
    IN (built[p].searched /\ \A e \in Viable(Xs) : GainOn(Xs, ys, e[1], e[2]) = 0)
         => (built[p].found = None /\ IsLeaf(p))

\* C5, amended: best_split returns None exactly when no candidate has two
\* non-empty partitions (a candidate of gain 0 is returned like any other);
\* build_tree emits a leaf when best_split returns None and a decision node
\* when it returns a split.
C5_NoneIffNoCandidate ==
  \A p \in DOMAIN built :
    built[p].searched =>
      /\ (built[p].found = None) <=> (Viable(SubX(built[p].rows)) = {})
      /\ (built[p].found = None) <=> IsLeaf(p)
      /\ built[p].found # None =>
           /\ nodes[p].feature_index = Some(built[p].found[1].feature_index)
           /\ nodes[p].threshold = Some(built[p].found[1].threshold)

\* a split of gain 0 was made, and below it best_split returned None
C5_Witness ==
  /\ pc = "fitted"
  /\ \E p \in DOMAIN built :
       /\ p # <<>>
       /\ built[p].searched
       /\ built[p].found = None
       /\ IsLeaf(p)
       /\ built[Parent(p)].found[1].info_gain = 0

\* C6: the split best_split returns attains the maximum gain and every
\* candidate before it in enumeration order (features ascending, thresholds
\* ascending within a feature) has a strictly smaller gain.
C6_FirstMaxWins ==
  split_out # None =>
    LET Xs == split_in[1].X
        ys == split_in[1].y
        s == split_out[1]
        c == <<s.feature_index, s.threshold>>
    IN \A e \in Viable(Xs) :
         /\ GainOn(Xs, ys, e[1], e[2]) <= s.info_gain
         /\ Before(e, c) => GainOn(Xs, ys, e[1], e[2]) < s.info_gain

\* the maximum is also attained by a later threshold of the same feature and
\* by a later feature
C6_Witness ==
  /\ split_out # None
  /\ LET Xs == split_in[1].X
         ys == split_in[1].y
         s == split_out[1]
     IN /\ \E e \in Viable(Xs) :
             /\ e[1] = s.feature_index
             /\ e[2] > s.threshold
             /\ GainOn(Xs, ys, e[1], e[2]) = s.info_gain
        /\ \E e \in Viable(Xs) :
             /\ e[1] > s.feature_index
             /\ GainOn(Xs, ys, e[1], e[2]) = s.info_gain

\* C7: every leaf holds the label with the highest count in its training
\* subset, the smallest such label when several tie.
C7_LeafMajority ==
  \A p \in DOMAIN nodes :
    IsLeaf(p) => nodes[p].value = Some(Min(MostFrequent(SubY(built[p].rows))))

\* a leaf emitted because best_split returned None, with two labels tied
C7_Witness ==
  /\ pc = "fitted"
  /\ \E p \in DOMAIN nodes :
       /\ IsLeaf(p)
       /\ built[p].searched
       /\ Cardinality(MostFrequent(SubY(built[p].rows))) > 1

\* the sequences of left (0) / right (1) turns a walk from the root can make
Walks == UNION {[1..k -> {0, 1}] : k \in 0..(MaxRows + 1)}

\* where a walk from node reference ref ends: None when it leaves the tree
RECURSIVE Follow(_, _)
Follow(ref, walk) ==
  IF ref = None \/ walk = <<>> THEN ref
  ELSE Follow(IF Head(walk) = 0 THEN nodes[ref[1]].left ELSE nodes[ref[1]].right,
              Tail(walk))

IsDecisionNode(nd) ==
  /\ nd.value = None
  /\ nd.feature_index # None /\ nd.threshold # None /\ nd.info_gain # None
  /\ nd.left # None /\ nd.right # None

IsLeafNode(nd) ==
  /\ nd.value # None
  /\ nd.left = None /\ nd.right = None
  /\ nd.feature_index = None /\ nd.threshold = None

\* C8: after fit returns, every node reachable from root is exactly one of a
\* decision node and a leaf, and no node is reachable by two different paths.
C8_TreeWellFormed ==
  pc = "fitted" =>
    /\ root # None
    /\ LET reached == {w \in Walks : Follow(root, w) # None}
       IN /\ \A w \in reached :
               LET nd == nodes[Follow(root, w)[1]]
               IN IsDecisionNode(nd) # IsLeafNode(nd)
          /\ \A w, v \in reached : Follow(root, w) = Follow(root, v) => w = v

\* a fitted tree two levels deep
C8_Witness ==
  /\ pc = "fitted"
  /\ \E w \in Walks : Len(w) = 2 /\ Follow(root, w) # None
  /\ \E w \in Walks : Len(w) = 1 /\ Follow(root, w) # None
                       /\ IsLeafNode(nodes[Follow(root, w)[1]])

\* the build_tree calls made so far, run or about to run
Calls == DOMAIN built \cup {stack[i].path : i \in 1..Len(stack)}
CallOf(q) ==
  IF q \in DOMAIN built THEN [rows |-> built[q].rows, depth |-> built[q].depth]
  ELSE LET fr == CHOOSE fr \in Range(stack) : fr.path = q
       IN [rows |-> fr.rows, depth |-> fr.depth]

\* C9: at every decision node the call building left is given the rows with
\* X[row, feature_index] <= threshold and the call building right the rows with
\* X[row, feature_index] > threshold, both at depth + 1; the two parts are
\* non-empty, disjoint and together the node's rows.
C9_Partition ==
  \A p \in DOMAIN nodes :
    ~IsLeaf(p) =>
      LET f == nodes[p].feature_index[1]
          t == nodes[p].threshold[1]
          lo == {r \in RowSet(p) : X[r][f + 1] <= t}
          hi == {r \in RowSet(p) : X[r][f + 1] > t}
          l == Append(p, 0)
          r == Append(p, 1)
      IN /\ lo # {} /\ hi # {}
         /\ l \in Calls
         /\ Range(CallOf(l).rows) = lo /\ CallOf(l).depth = built[p].depth + 1
         /\ r \in Calls =>
              /\ Range(CallOf(r).rows) = hi /\ CallOf(r).depth = built[p].depth + 1
              /\ Range(CallOf(l).rows) \cap Range(CallOf(r).rows) = {}
              /\ Range(CallOf(l).rows) \cup Range(CallOf(r).rows) = RowSet(p)
         /\ nodes[p].left # None => nodes[p].left = Some(l)
         /\ nodes[p].right # None => nodes[p].right = Some(r)

\* a decision node below the root with both children built
C9_Witness ==
  /\ pc = "fitted"
  /\ \E p \in DOMAIN nodes :
       /\ ~IsLeaf(p) /\ p # <<>>
       /\ Append(p, 0) \in DOMAIN built /\ Append(p, 1) \in DOMAIN built

\* C10: at every decision node 0 <= feature_index < d and threshold occurs in
\* column feature_index among the rows of the node's own subset; the thresholds
\* best_split goes through for a column are the distinct values of that column
\* within the subset.
C10_ThresholdFromSubset ==
  /\ \A p \in DOMAIN nodes :
       ~IsLeaf(p) =>
         /\ nodes[p].feature_index[1] \in 0..(n_features[1] - 1)
         /\ nodes[p].threshold[1] \in
              ColumnValues(SubX(built[p].rows), nodes[p].feature_index[1])
  /\ \A p \in DOMAIN built :
       built[p].searched =>
         \A f \in 0..(n_features[1] - 1) :
           LET Xs == SubX(built[p].rows)
           IN Range(Thresholds(Column(Xs, f))) = ColumnValues(Xs, f)

\* a decision node below the root, with a value in its column of the full
\* dataset that its own subset lacks
C10_Witness ==
  /\ pc = "fitted"
  /\ \E p \in DOMAIN nodes :
       /\ ~IsLeaf(p) /\ p # <<>>
       /\ ColumnValues(X, nodes[p].feature_index[1])
            # ColumnValues(SubX(built[p].rows), nodes[p].feature_index[1])

----------------------------------------------------------------------------
(* C11..C19 *)

\* the last call on the classifier was op
Asked(op) == asked # None /\ asked[1].op = op

\* walk w from the root obeys x at every decision node it passes (left on
\* x[feature_index] <= threshold, right otherwise) and ends in a leaf
Obeys(w, x) ==
  /\ Follow(root, w) # None
  /\ IsLeaf(Follow(root, w)[1])
  /\ \A k \in 1..Len(w) :
       LET nd == nodes[Follow(root, SubSeq(w, 1, k - 1))[1]]
       IN /\ nd.value = None
          /\ (w[k] = 0) <=> (x[nd.feature_index[1] + 1] <= nd.threshold[1])

\* C11: on a fitted tree, for a vector x of the training width,
\* predict_single(x, root) returns the predicted class of the one leaf reached
\* from root by going left where x[feature_index] <= threshold and right
\* otherwise.
C11_PredictFollowsTests ==
  (pc = "fitted" /\ Asked("predict_single") /\ Len(asked[1].arg) = n_features[1]) =>
    LET ends == {w \in Walks : Obeys(w, asked[1].arg)}
    IN /\ Cardinality(ends) = 1
       /\ \A w \in ends : answer = Returned(nodes[Follow(root, w)[1]].value[1])

\* predict_single has walked right, then left, to a leaf two levels down
C11_Witness ==
  /\ pc = "fitted"
  /\ Asked("predict_single")
  /\ Len(asked[1].arg) = n_features[1]
  /\ Obeys(<<1, 0>>, asked[1].arg)
  /\ answer.raised = None

\* no two rows of equal features have different labels: some tree of
\* axis-aligned splits classifies every row right
Separable(Xs, ys) ==
  \A i, j \in 1..Len(Xs) : Xs[i] = Xs[j] => ys[i] = ys[j]

\* C12: fitted with unbounded depth and min_samples_split = 2 on separable
\* data, predict on the training rows returns the training labels.
C12_SeparableRoundTrip ==
  ( /\ pc = "fitted" /\ max_depth = None /\ min_samples_split = 2
    /\ Asked("predict") /\ asked[1].arg = X
    /\ Separable(X, y) )
  => answer = Returned(y)

\* predict has returned the labels of separable training rows that took two
\* levels of splits to tell apart
C12_Witness ==
  /\ pc = "fitted"
  /\ Asked("predict") /\ asked[1].arg = X
  /\ Separable(X, y)
  /\ answer = Returned(y)
  /\ \E w \in Walks : Len(w) = 2 /\ Follow(root, w) # None

\* one feature, label 0 on the lower values and label 1 on the higher ones
StepData(Xs, ys) ==
  /\ NumFeatures(Xs) = 1
  /\ Range(ys) = {0, 1}
  /\ \A i, j \in 1..Len(Xs) : (ys[i] = 0 /\ ys[j] = 1) => Xs[i][1] < Xs[j][1]

\* the largest feature value labelled 0
Cut(Xs, ys) == Max({Xs[i][1] : i \in {k \in 1..Len(Xs) : ys[k] = 0}})

\* C13: fitted with unbounded depth and min_samples_split = 2 on one feature
\* whose lower values are labelled 0 and higher values 1 (as X = [[0],[1],[2],
\* [3]], y = [0,0,1,1]), the root is a decision node on feature_index 0 with
\* the largest value labelled 0 as threshold and a gain > 0, and predict_single
\* returns 0 for a query at or below the threshold and 1 for one above it.
C13_StepSplitsAtCut ==
  ( /\ pc = "fitted" /\ max_depth = None /\ min_samples_split = 2
    /\ StepData(X, y) )
  => /\ root # None
     /\ IsDecisionNode(nodes[root[1]])
     /\ nodes[root[1]].feature_index = Some(0)
     /\ nodes[root[1]].threshold = Some(Cut(X, y))
     /\ nodes[root[1]].info_gain[1] > 0
     /\ (Asked("predict_single") /\ Len(asked[1].arg) = 1) =>
          /\ answer.raised = None
          /\ answer.value = IF asked[1].arg[1] <= Cut(X, y) THEN 0 ELSE 1

\* the case of the claim, asked for a query above the threshold 1
C13_Witness ==
  /\ pc = "fitted"
  /\ X = <<<<0>>, <<1>>, <<2>>, <<3>>>>
  /\ y = <<0, 0, 1, 1>>
  /\ nodes[root[1]].threshold = Some(1)
  /\ Asked("predict_single")
  /\ asked[1].arg = <<3>>
  /\ answer.value = 1

\* C14: when all labels of y are the same label c, fit never calls best_split
\* and produces a tree that is a single leaf of predicted class c, whatever X,
\* max_depth and min_samples_split are.
C14_OneLabelOneLeaf ==
  Cardinality(Range(y)) = 1 =>
    /\ \A p \in DOMAIN built : ~built[p].searched
    /\ pc = "fitted" =>
         /\ root = Some(<<>>)
         /\ DOMAIN nodes = {<<>>}
         /\ IsLeafNode(nodes[<<>>])
         /\ nodes[<<>>].value = Some(y[1])

\* fit has returned on rows that differ, all labelled 1, with room to split
C14_Witness ==
  /\ pc = "fitted"
  /\ Range(y) = {1}
  /\ max_depth = None
  /\ Len(X) >= min_samples_split
  /\ Viable(X) # {}

\* C15: with max_depth = 0 fit produces a single leaf that holds a most
\* frequent label of the whole y, separable data or not.
C15_DepthZeroOneLeaf ==
  (pc = "fitted" /\ max_depth = Some(0)) =>
    /\ root = Some(<<>>)
    /\ DOMAIN nodes = {<<>>}
    /\ IsLeafNode(nodes[<<>>])
    /\ nodes[<<>>].value # None
    /\ nodes[<<>>].value[1] \in MostFrequent(y)

\* fit with max_depth = 0 has returned on data that one split would separate
C15_Witness ==
  /\ pc = "fitted"
  /\ max_depth = Some(0)
  /\ Len(X) >= min_samples_split
  /\ Range(y) = {0, 1}
  /\ \E e \in Viable(X) :
       /\ Range(LabelsLeft(X, y, e[1], e[2])) = {0}
       /\ Range(LabelsRight(X, y, e[1], e[2])) = {1}

\* the inputs fit is to reject
Malformed(Xs, ys) == Len(Xs) # Len(ys) \/ Len(Xs) = 0 \/ NumFeatures(Xs) = 0

\* C16 as claimed: called with an X and a y of different lengths, an X of no
\* rows or an X of no columns, fit raises InvalidDatasetError before any
\* build_tree call runs and before any node is created.
C16_MalformedRejectedAtEntry ==
  (asked # None /\ answer # None /\ Malformed(X, y)) =>
    /\ answer.raised = Some("InvalidDatasetError")
    /\ built = <<>>
    /\ nodes = <<>>

\* the inputs fit is to accept
WellFormed(Xs, ys) == Len(Xs) > 0 /\ Len(ys) = Len(Xs)

\* C18 as claimed: on a non-empty X and a y of the same length, of any integer
\* labels, fit raises nothing.
C18_WellFormedNeverRaises ==
  (asked # None /\ answer # None /\ WellFormed(X, y)) => answer.raised = None

\* C17 as claimed: predict_single on a vector whose width is not the training
\* width raises InputDimensionError.
C17_WidthMismatchRejected ==
  (pc = "fitted" /\ Asked("predict_single") /\ Len(asked[1].arg) # n_features[1])
    => answer.raised = Some("InputDimensionError")

\* the tree self.root refers to
Tree ==
  IF prior # None THEN [root |-> prior[1].root, nodes |-> prior[1].nodes]
  ELSE [root |-> root, nodes |-> nodes]

\* C19 as claimed: once a fit has returned, no call on the classifier, a
\* further fit included, changes which node is the root or a field of a node.
C19_TreeNeverChanges == [][root # None => Tree' = Tree]_vars

----------------------------------------------------------------------------
(* C21, C24..C30 *)

\* C21: predict(X) returns one label per row of X, in the order of the rows:
\* the i-th label is what predict_single(X[i], root) returns, the class of the
\* leaf that row i alone leads to, whatever the other rows of the batch are
\* and wherever row i stands among them.
C21_PredictRowByRow ==
  (pc = "fitted" /\ Asked("predict")) =>
    LET Xq == asked[1].arg
    IN /\ answer.raised = None
       /\ Len(answer.value) = Len(Xq)
       /\ \A i \in 1..Len(Xq) :
            /\ PredictSingle(Xq[i], root).raised = None
            /\ answer.value[i] = PredictSingle(Xq[i], root).value
            /\ \E w \in Walks :
                 Obeys(w, Xq[i]) /\ answer.value[i] = nodes[Follow(root, w)[1]].value[1]

\* predict has returned two different labels for a batch of two rows
C21_Witness ==
  /\ pc = "fitted"
  /\ Asked("predict")
  /\ Len(asked[1].arg) = 2
  /\ answer.raised = None
  /\ answer.value[1] = 1
  /\ answer.value[2] = 0

\* C24: fit, build_tree and best_split only read the dataset. From the call of
\* fit to its return and after it, X and y hold the values, in the row order,
\* that were passed; a best_split call changes neither them nor any attribute
\* of the classifier (root, the nodes, max_depth, min_samples_split, n_classes,
\* n_features).
C24_DatasetReadOnly ==
  [][ /\ Asked("fit")' => (X' = asked'[1].arg[1] /\ y' = asked'[1].arg[2])
      /\ pc = "building" => (X' = X /\ y' = y)
      /\ pc' = "queried" =>
           UNCHANGED <<X, y, root, nodes, max_depth, min_samples_split,
                       n_classes, n_features>> ]_vars

\* best_split has been called on a fitted tree with a decision node, whose
\* labels are 1 but for the last row, and has found a split; X and y are as
\* they were passed to fit
C24_Witness ==
  /\ pc = "queried"
  /\ root # None
  /\ nodes[root[1]].value = None
  /\ split_out # None
  /\ \A i \in 1..Len(y) : y[i] = 1 \/ i = Len(y)
  /\ X = asked[1].arg[1]
  /\ y = asked[1].arg[2]

\* the classes of ys are equally frequent
Balanced(ys) == \A c, e \in Range(ys) : CountOf(ys, c) = CountOf(ys, e)

\* log2 of k in the unit of the entropies of the model
LogOf(k) == Log2Fix(k) * Denominator

\* C25: for a non-empty y, entropy(y) is at least 0; it is 0 exactly when all
\* labels are the same; it is at most log2 of the number of classes present
\* and equals it when the classes are equally frequent; and every proportion
\* given to log2 is greater than 0 and at most 1.
C25_EntropyBounds ==
  Asked("entropy") =>
    LET ys == asked[1].arg
        k == Cardinality(Range(ys))
        ps == Proportions(ys)
    IN /\ answer.raised = None
       /\ answer.value >= 0
       /\ (answer.value = 0) <=> (k = 1)
       /\ answer.value <= LogOf(k)
       /\ Balanced(ys) => answer.value = LogOf(k)
       /\ \A zs \in EntropyInputs :
            (Balanced(ys) /\ Cardinality(Range(zs)) = k) => Entropy(zs) <= answer.value
       /\ Len(ps) = k
       /\ \A i \in 1..Len(ps) : 0 < ps[i].num /\ ps[i].num <= ps[i].den

\* entropy has been taken of three labels of three classes
C25_Witness ==
  /\ Asked("entropy")
  /\ Len(asked[1].arg) = 3
  /\ Cardinality(Range(asked[1].arg)) = 3
  /\ answer.value = LogOf(3)

\* C26: every decision node of a tree was created by a build_tree call whose
\* subset had at least min_samples_split rows and at least two distinct labels,
\* at a depth strictly less than max_depth when max_depth is set: a call given
\* a subset failing one of the three creates a leaf.
C26_SplitOnlyWhenAllowed ==
  \A p \in DOMAIN nodes :
    LET rows == built[p].rows
        allowed == /\ Len(rows) >= min_samples_split
                   /\ Cardinality(Range(SubY(rows))) >= 2
                   /\ (max_depth # None => built[p].depth < max_depth[1])
    IN /\ ~IsLeaf(p) => allowed
       /\ ~allowed => (IsLeaf(p) /\ ~built[p].searched)

\* a fitted tree, under max_depth 1 and min_samples_split 3, whose root is a
\* decision node with a child of two labels that was not split
C26_Witness ==
  /\ pc = "fitted"
  /\ max_depth = Some(1)
  /\ min_samples_split = 3
  /\ ~IsLeaf(<<>>)
  /\ \E p \in DOMAIN nodes :
       Len(p) = 1 /\ IsLeaf(p) /\ Cardinality(Range(SubY(built[p].rows))) = 2

\* the leaves of the tree
Leaves == {p \in DOMAIN nodes : IsLeaf(p)}

\* C27: on a fitted tree the training subsets of the leaves are non-empty,
\* pairwise disjoint and together all the training rows, so that there are at
\* most as many leaves as rows; and predict_single on a training row X[i] ends
\* at the leaf whose subset contains row i, returning that leaf's class.
C27_RowsRoutedToOwnLeaf ==
  pc = "fitted" =>
    /\ \A p \in Leaves : RowSet(p) # {}
    /\ \A p, q \in Leaves : p # q => RowSet(p) \cap RowSet(q) = {}
    /\ UNION {RowSet(p) : p \in Leaves} = 1..Len(X)
    /\ Cardinality(Leaves) <= Len(X)
    /\ \A i \in 1..Len(X) :
         (Asked("predict_single") /\ asked[1].arg = X[i]) =>
           \E w \in Walks :
             /\ Obeys(w, X[i])
             /\ i \in RowSet(Follow(root, w)[1])
             /\ answer.raised = None
             /\ answer.value = nodes[Follow(root, w)[1]].value[1]

\* predict_single has been called on a training row that went right to a leaf
\* which also holds another row, of another label
C27_Witness ==
  /\ pc = "fitted"
  /\ Asked("predict_single")
  /\ \E i \in 1..Len(X) :
       /\ asked[1].arg = X[i]
       /\ \E w \in Walks :
            /\ w = <<1>>
            /\ Obeys(w, X[i])
            /\ i \in RowSet(Follow(root, w)[1])
            /\ \E j \in RowSet(Follow(root, w)[1]) : y[j] # y[i]

\* C28: on a subset of one row or more, best_split returns None exactly when
\* every column holds a single distinct value (which includes a subset of no
\* column); when some column has two distinct values or more it returns a
\* split, be its gain 0, and the threshold returned is a value of its column
\* other than the largest.
C28_NoneIffColumnsConstant ==
  (pc = "queried" /\ Len(split_in[1].X) > 0) =>
    LET Xs == split_in[1].X
        constant == \A f \in 0..(NumFeatures(Xs) - 1) :
                      Cardinality(ColumnValues(Xs, f)) = 1
    IN /\ (split_out = None) <=> constant
       /\ split_out # None =>
            LET values == ColumnValues(Xs, split_out[1].feature_index)
            IN /\ split_out[1].threshold \in values
               /\ split_out[1].threshold < Max(values)

\* best_split has returned a split of gain 0: the labels are all the same
C28_Witness ==
  /\ pc = "queried"
  /\ Len(split_in[1].X) > 1
  /\ Cardinality(Range(split_in[1].y)) = 1
  /\ split_out # None
  /\ split_out[1].info_gain = 0

\* C29: a leaf is told by value being set, whatever the value. On a fitted
\* tree a node has a value exactly when it has no children; predict_single on
\* a vector of the training width that leads to a leaf of class 0 stops there
\* and returns 0 without raising; visualize_tree draws every leaf, of class 0
\* or not, as a class node with no edge leaving it, and every decision node
\* with its test and its two edges.
C29_LeafByValueNotTruth ==
  pc = "fitted" =>
    /\ \A p \in DOMAIN nodes :
         /\ nodes[p].value # None => (nodes[p].left = None /\ nodes[p].right = None)
         /\ nodes[p].value = None => (nodes[p].left # None /\ nodes[p].right # None)
    /\ (Asked("predict_single") /\ Len(asked[1].arg) = n_features[1]) =>
         \A w \in Walks :
           (Obeys(w, asked[1].arg) /\ nodes[Follow(root, w)[1]].value = Some(0))
             => (answer.raised = None /\ answer.value = 0)
    /\ Asked("visualize_tree") =>
         \A w \in Walks :
           Follow(root, w) # None =>
             LET nd == nodes[Follow(root, w)[1]]
                 id == <<0>> \o w
                 drawn == answer.value
                 leaving == {e \in drawn : e[1] = "edge" /\ e[2] = id}
             IN IF nd.value # None
                THEN /\ <<"node", id, <<"Class", nd.value[1]>>>> \in drawn
                     /\ leaving = {}
                ELSE /\ \E e \in drawn : e[1] = "node" /\ e[2] = id /\ e[3][1] = "X"
                     /\ leaving = {<<"edge", id, Append(id, 0), "True">>,
                                   <<"edge", id, Append(id, 1), "False">>}

\* predict_single has gone left at the root to a leaf of class 0
C29_Witness ==
  /\ pc = "fitted"
  /\ Asked("predict_single")
  /\ Len(asked[1].arg) = n_features[1]
  /\ Obeys(<<0>>, asked[1].arg)
  /\ nodes[<<0>>].value = Some(0)
  /\ answer.raised = None
  /\ answer.value = 0

\* the square of the distance from training point i of call c to its test point
SquaredDistance(c, i) ==
  LET p == c.X_train[i]
      idx == DOMAIN p
      sq == [j \in idx |-> (p[j] - c.test_point[j]) * (p[j] - c.test_point[j])]
  IN IF Len(p) = 1 THEN sq[1] ELSE sq[1] + sq[2]

\* training point j comes before training point i: it is nearer, or as near
\* and earlier in the training set
Nearer(c, j, i) ==
  \/ SquaredDistance(c, j) < SquaredDistance(c, i)
  \/ (SquaredDistance(c, j) = SquaredDistance(c, i) /\ j < i)

\* the place of training point i among the training points from the nearest
Place(c, i) == 1 + Cardinality({j \in 1..Len(c.X_train) : Nearer(c, j, i)})

\* the min(k, n) nearest training points
Nearest(c) == {i \in 1..Len(c.X_train) : Place(c, i) <= c.k}

\* the number of votes of label l and the place of its nearest voter
Votes(c, l) == Cardinality({i \in Nearest(c) : c.y_train[i] = l})
FirstPlace(c, l) == Min({Place(c, i) : i \in {n \in Nearest(c) : c.y_train[n] = l}})

\* C30: predict_classification returns the label of highest count among the
\* min(k, n) training points nearest to the test point by Euclidean distance,
\* points at equal distance being taken in training order; of several labels
\* of highest count it returns the one whose first neighbour is nearest.
C30_NearestMajority ==
  Asked("predict_classification") =>
    LET c == asked[1].arg
        voted == {c.y_train[i] : i \in Nearest(c)}
        top == {l \in voted : \A m \in voted : Votes(c, m) <= Votes(c, l)}
    IN /\ Cardinality(Nearest(c)) = Min({c.k, Len(c.X_train)})
       /\ answer.raised = None
       /\ answer.value \in top
       /\ \A l \in top : FirstPlace(c, answer.value) <= FirstPlace(c, l)

\* three points, the last two as far as each other from the test point and
\* the first one farther, k = 2: the two nearest have different labels and the
\* label of the earlier one wins
C30_Witness ==
  /\ Asked("predict_classification")
  /\ LET c == asked[1].arg
     IN /\ Len(c.X_train) = 3
        /\ c.k = 2
        /\ Nearest(c) = {2, 3}
        /\ SquaredDistance(c, 2) = SquaredDistance(c, 3)
        /\ c.y_train[2] # c.y_train[3]
        /\ c.y_train[1] = c.y_train[3]
        /\ answer.value = c.y_train[2]

====
